---- MODULE Spec2Model ----
(***************************************************************************)
(* A model of gtfsrtk/main.py: the feed collection loop (collect_feeds),   *)
(* the snapshot parser (extract_delays), the snapshot merger               *)
(* (combine_delays), the schedule join with its admission window           *)
(* (build_augmented_stop_times), the delay column (append_delay_col) and   *)
(* the interpolation of delays along a trip (interpolate_delays).          *)
(*                                                                         *)
(* Every function is a terminating batch computation, so each one has a    *)
(* specification of its own: Init draws the arguments from bounded sets    *)
(* and one action applies the function.  collect_feeds is a loop with      *)
(* I/O, and is modelled step by step.                                      *)
(*                                                                         *)
(* An optional number (a NaN or None of the source) is a set with at most  *)
(* one element: {} is "absent", {v} is "present with value v".             *)
(***************************************************************************)
EXTENDS Integers, Sequences, FiniteSets, TLC

VARIABLES
    \* collect_feeds
    cpc,            \* position: "off", "for", "while", "sleep", "done"
    num_tries,      \* argument
    num_calls,      \* duration // frequency
    i,              \* index of the collection cycle
    n,              \* the attempt counter of the inner loop
    success,        \* flag of the inner loop
    calls,          \* calls of get_feed made in the current cycle
    written,        \* files written in the current cycle
    slept,          \* number of time.sleep(frequency) calls so far
    \* extract_delays
    epc,            \* "off", "call", "done"
    feed,           \* argument: the entity list of the feed
    rows,           \* the rows of the returned frame
    raised,         \* TRUE when extract_delays raised
    \* combine_delays
    mpc,            \* "off", "call", "done"
    delays_list,    \* argument: a list of frames, each a list of rows
    combined,       \* the result: [err |-> BOOLEAN, rows |-> list of rows]
    \* build_augmented_stop_times
    bpc,            \* "off", "call", "done"
    date,           \* argument: the service date, YYYYMMDD
    st,             \* the scheduled stop times of the date
    files,          \* the snapshot files of gtfsr_path
    end_datetime,   \* <<end_date, <<hours, minutes, seconds>>>>
    ast,            \* the result: [err |-> BOOLEAN, rows |-> list of rows]
    \* append_delay_col
    dpc,            \* "off", "call", "done"
    dtable,         \* argument f
    delay_cutoff,   \* argument
    dout,           \* the returned frame
    \* interpolate_delays
    ipc,            \* "off", "call", "done"
    itable,         \* argument augmented_stop_times
    dist_threshold, \* argument
    pinned,         \* the frame after the first and last delays are set
    interpolated,   \* the frame after np.interp, before rounding
    iout            \* the returned frame

collectVars == <<cpc, num_tries, num_calls, i, n, success, calls, written, slept>>
extractVars == <<epc, feed, rows, raised>>
combineVars == <<mpc, delays_list, combined>>
buildVars == <<bpc, date, st, files, end_datetime, ast>>
delayColVars == <<dpc, dtable, delay_cutoff, dout>>
interpVars == <<ipc, itable, dist_threshold, pinned, interpolated, iout>>
vars == <<collectVars, extractVars, combineVars, buildVars, delayColVars, interpVars>>

Null == {}
Some(v) == {v}
IsNull(x) == x = {}
NotNull(x) == x # {}
Val(x) == CHOOSE v \in x : TRUE

CollectOff ==
    /\ cpc = "off" /\ num_tries = 0 /\ num_calls = 0 /\ i = 0 /\ n = 0
    /\ success = FALSE /\ calls = 0 /\ written = 0 /\ slept = 0

ExtractOff == epc = "off" /\ feed = <<>> /\ rows = <<>> /\ raised = FALSE

CombineOff == mpc = "off" /\ delays_list = <<>> /\ combined = <<>>

BuildOff ==
    /\ bpc = "off" /\ date = 0 /\ st = <<>> /\ files = <<>>
    /\ end_datetime = <<>> /\ ast = <<>>

DelayColOff == dpc = "off" /\ dtable = <<>> /\ delay_cutoff = 0 /\ dout = <<>>

InterpOff ==
    /\ ipc = "off" /\ itable = <<>> /\ dist_threshold = 0
    /\ pinned = <<>> /\ interpolated = <<>> /\ iout = <<>>

-----------------------------------------------------------------------------
(* collect_feeds                                                           *)

MaxTries == 3
MaxDuration == 7
MaxFrequency == 3
MaxCalls == 6

CollectInit ==
    /\ cpc = "for"
    /\ num_tries \in 0..MaxTries
    /\ \E duration \in 0..MaxDuration, frequency \in 1..MaxFrequency :
          num_calls = duration \div frequency
    /\ i = 0 /\ n = 0 /\ success = FALSE /\ calls = 0 /\ written = 0 /\ slept = 0

\* for i in range(num_calls): success = False; n = 1
ForNext ==
    /\ cpc = "for"
    /\ IF i < num_calls
         THEN /\ success' = FALSE /\ n' = 1 /\ calls' = 0 /\ written' = 0
              /\ cpc' = "while"
         ELSE /\ cpc' = "done"
              /\ UNCHANGED <<success, n, calls, written>>
    /\ UNCHANGED <<num_tries, num_calls, i, slept>>
    /\ UNCHANGED <<extractVars, combineVars, buildVars, delayColVars, interpVars>>

WhileCond == ~success /\ n <= num_tries

\* get_feed() returns: success = True, the file is written, n += 1
GetFeedOk ==
    /\ cpc = "while" /\ WhileCond
    /\ calls' = calls + 1
    /\ success' = TRUE
    /\ written' = written + 1
    /\ n' = n + 1
    /\ UNCHANGED <<cpc, num_tries, num_calls, i, slept>>
    /\ UNCHANGED <<extractVars, combineVars, buildVars, delayColVars, interpVars>>

\* get_feed() raises RequestException: `continue` goes back to the loop test
\* and so skips n += 1.  The calls of one cycle are capped at MaxCalls to keep
\* the model finite.
GetFeedFail ==
    /\ cpc = "while" /\ WhileCond
    /\ calls < MaxCalls
    /\ calls' = calls + 1
    /\ UNCHANGED <<cpc, num_tries, num_calls, i, n, success, written, slept>>
    /\ UNCHANGED <<extractVars, combineVars, buildVars, delayColVars, interpVars>>

WhileExit ==
    /\ cpc = "while" /\ ~WhileCond
    /\ cpc' = "sleep"
    /\ UNCHANGED <<num_tries, num_calls, i, n, success, calls, written, slept>>
    /\ UNCHANGED <<extractVars, combineVars, buildVars, delayColVars, interpVars>>

\* time.sleep(frequency), then the next cycle
Sleep ==
    /\ cpc = "sleep"
    /\ slept' = slept + 1
    /\ i' = i + 1
    /\ cpc' = "for"
    /\ UNCHANGED <<num_tries, num_calls, n, success, calls, written>>
    /\ UNCHANGED <<extractVars, combineVars, buildVars, delayColVars, interpVars>>

CollectNext == ForNext \/ GetFeedOk \/ GetFeedFail \/ WhileExit \/ Sleep

InitCollect ==
    /\ CollectInit /\ ExtractOff /\ CombineOff /\ BuildOff /\ DelayColOff /\ InterpOff

SpecCollect == InitCollect /\ [][CollectNext]_vars

\* C1: in every collection cycle get_feed is called at most num_tries times
\* (and a cycle whose calls all fail still reaches the sleep and the next
\* cycle).
C1_AtMostNumTries == cpc \in {"while", "sleep"} => calls <= num_tries

-----------------------------------------------------------------------------
(* Rows of a delays frame, and the sort by route_id, trip_id, stop_sequence *)

Row(rid, tid, seq, sid, arr, dep) ==
    [route_id |-> rid, trip_id |-> tid, stop_sequence |-> seq, stop_id |-> sid,
     arrival_delay |-> arr, departure_delay |-> dep]

\* row[cols].values with cols = ['route_id', 'trip_id', 'stop_sequence']
KeyOf(r) == <<r.route_id, r.trip_id, r.stop_sequence>>

KeyLess(a, b) ==
    \/ a[1] < b[1]
    \/ a[1] = b[1] /\ a[2] < b[2]
    \/ a[1] = b[1] /\ a[2] = b[2] /\ a[3] < b[3]

\* The position at which a stable sort places r in the sorted list s: after
\* every row whose key is not greater.
RECURSIVE InsertPos(_, _, _)
InsertPos(r, s, k) ==
    IF k > Len(s) \/ KeyLess(KeyOf(r), KeyOf(s[k])) THEN k
    ELSE InsertPos(r, s, k + 1)

InsertRow(r, s) ==
    LET k == InsertPos(r, s, 1)
    IN  SubSeq(s, 1, k - 1) \o <<r>> \o SubSeq(s, k, Len(s))

\* f.sort_values(['route_id', 'trip_id', 'stop_sequence']): pandas sorts on
\* several columns with a stable lexsort
RECURSIVE SortRows(_)
SortRows(s) ==
    IF s = <<>> THEN <<>>
    ELSE InsertRow(s[Len(s)], SortRows(SubSeq(s, 1, Len(s) - 1)))

-----------------------------------------------------------------------------
(* extract_delays                                                          *)

MaxEntities == 3

\* An entity of feed['response']['entity'].  has_tu: it has a 'trip_update';
\* has_trip, has_stu: the trip update has its 'trip' and 'stop_time_update'.
Entity(tu, trip, stu, rid, tid, seq, sid, arr, dep) ==
    [has_tu |-> tu, has_trip |-> trip, has_stu |-> stu,
     route_id |-> rid, trip_id |-> tid, stop_sequence |-> seq, stop_id |-> sid,
     arrival |-> arr, departure |-> dep]

WellFormedEntities(rids, tids, seqs, arrs, deps) ==
    { Entity(TRUE, TRUE, TRUE, rid, tid, seq, seq, arr, dep) :
        rid \in rids, tid \in tids, seq \in seqs, arr \in arrs, dep \in deps }

OtherEntity == Entity(FALSE, FALSE, FALSE, 0, 0, 0, 0, Null, Null)
NoTripEntity == Entity(TRUE, FALSE, TRUE, 0, 0, 1, 1, Some(5), Null)
NoStuEntity == Entity(TRUE, TRUE, FALSE, 1, 1, 0, 0, Null, Null)

ExtractEntities ==
    WellFormedEntities({1}, {1, 2}, {1}, {Null, Some(5)}, {Null, Some(7)})
        \cup {OtherEntity, NoTripEntity, NoStuEntity}

\* tu['trip'][...] or tu['stop_time_update'] raises KeyError
Malformed(e) == e.has_tu /\ (~e.has_trip \/ ~e.has_stu)

WellFormed(e) == e.has_tu /\ e.has_trip /\ e.has_stu

\* rows.append((rid, tid, stop_sequence, stop_id, delay['arrival'], delay['departure']))
EntityRow(e) ==
    Row(e.route_id, e.trip_id, e.stop_sequence, e.stop_id, e.arrival, e.departure)

\* The for loop inside the try: an entity without a trip update is passed
\* over; the KeyError of a malformed entity leaves the loop, the except
\* clause being outside of it.
RECURSIVE ScanEntities(_)
ScanEntities(es) ==
    IF es = <<>> THEN <<>>
    ELSE IF ~es[1].has_tu THEN ScanEntities(Tail(es))
    ELSE IF Malformed(es[1]) THEN <<>>
    ELSE <<EntityRow(es[1])>> \o ScanEntities(Tail(es))

\* The frame returned by extract_delays (the timestamp is left out)
ExtractDelays(es) == SortRows(ScanEntities(es))

RECURSIVE SeqsUpTo(_, _)
SeqsUpTo(S, k) ==
    IF k = 0 THEN {<<>>}
    ELSE LET shorter == SeqsUpTo(S, k - 1)
         IN  shorter \cup { Append(s, x) : s \in shorter, x \in S }

ExtractInit ==
    /\ epc = "call"
    /\ feed \in SeqsUpTo(ExtractEntities, MaxEntities)
    /\ rows = <<>>
    /\ raised = FALSE

ExtractCall ==
    /\ epc = "call"
    /\ rows' = ExtractDelays(feed)
    /\ raised' = FALSE
    /\ epc' = "done"
    /\ UNCHANGED feed
    /\ UNCHANGED <<collectVars, combineVars, buildVars, delayColVars, interpVars>>

ExtractNext == ExtractCall

InitExtract ==
    /\ ExtractInit /\ CollectOff /\ CombineOff /\ BuildOff /\ DelayColOff /\ InterpOff

SpecExtract == InitExtract /\ [][ExtractNext]_vars

\* The rows of the well-formed entities of a list, in the order of the list
RECURSIVE WellFormedRows(_)
WellFormedRows(es) ==
    IF es = <<>> THEN <<>>
    ELSE IF WellFormed(es[1]) THEN <<EntityRow(es[1])>> \o WellFormedRows(Tail(es))
    ELSE WellFormedRows(Tail(es))

\* C5: a malformed entity is skipped and parsing continues: the result has the
\* observations of every well-formed entity, before or after the malformed
\* one, and no error is raised.
C5_SkipsOnlyMalformed ==
    epc = "done" => ~raised /\ rows = SortRows(WellFormedRows(feed))

-----------------------------------------------------------------------------
(* combine_delays                                                          *)

MaxFrames == 2
MaxObs == 3

\* The rows the frames of delays_list are drawn from
CombineRows ==
    { Row(rid, 1, 1, 1, arr, dep) :
        rid \in {1, 2}, arr \in {Null, Some(5), Some(6)}, dep \in {Null, Some(7)} }

\* pd.concat(delays_list) of a non-empty list
RECURSIVE Concat(_)
Concat(dl) == IF dl = <<>> THEN <<>> ELSE dl[1] \o Concat(Tail(dl))

\* f.drop_duplicates(): a row equal to an earlier row is dropped
RECURSIVE DropDuplicates(_)
DropDuplicates(s) ==
    IF s = <<>> THEN <<>>
    ELSE LET init == SubSeq(s, 1, Len(s) - 1)
             last == s[Len(s)]
         IN  IF \E k \in 1..Len(init) : init[k] = last
               THEN DropDuplicates(init)
               ELSE Append(DropDuplicates(init), last)

AllNullDropped(r) == IsNull(r.arrival_delay) /\ IsNull(r.departure_delay)
NothingDropped(r) == FALSE

\* how='all': the rows dropped by dropna are those with both delays null
DropNaAll(r) == AllNullDropped(r)

\* f.dropna(subset=['arrival_delay', 'departure_delay'], how='all')
RECURSIVE DropNa(_)
DropNa(s) ==
    IF s = <<>> THEN <<>>
    ELSE IF DropNaAll(s[1]) THEN DropNa(Tail(s))
    ELSE <<s[1]>> \o DropNa(Tail(s))

FillIfNull(keptval, rowval) ==
    IF NotNull(rowval) /\ IsNull(keptval) THEN rowval ELSE keptval
FillAlways(keptval, rowval) ==
    IF NotNull(rowval) THEN rowval ELSE keptval

\* if pd.notnull(row[dcol]) and pd.isnull(new_rows[-1][dcol]):
\*     new_rows[-1][dcol] = row[dcol]
FillDelay(keptval, rowval) == FillIfNull(keptval, rowval)

\* A duplicate route-trip-stop row backfills the previous row's delays
Backfill(kept, row) ==
    IF IsNull(kept.arrival_delay) \/ IsNull(kept.departure_delay)
      THEN [kept EXCEPT !.arrival_delay = FillDelay(@, row.arrival_delay),
                        !.departure_delay = FillDelay(@, row.departure_delay)]
      ELSE kept

\* The loop over f.iterrows(): new_rows after the rows of s, prev_tup being
\* the key of the last row of new_rows
RECURSIVE WalkRows(_, _)
WalkRows(s, new_rows) ==
    IF s = <<>> THEN new_rows
    ELSE IF new_rows # <<>> /\ KeyOf(s[1]) = KeyOf(new_rows[Len(new_rows)])
      THEN WalkRows(Tail(s),
                    [new_rows EXCEPT ![Len(new_rows)] = Backfill(@, s[1])])
      ELSE WalkRows(Tail(s), Append(new_rows, s[1]))

\* combine_delays.  pd.concat raises ValueError on an empty list.
CombineDelays(dl) ==
    IF dl = <<>> THEN [err |-> TRUE, rows |-> <<>>]
    ELSE [err |-> FALSE,
          rows |-> WalkRows(SortRows(DropNa(DropDuplicates(Concat(dl)))), <<>>)]

\* The list of k frames that cuts the rows s at the positions c[1..k-1]
Frames(s, k, c) ==
    [j \in 1..k |->
        SubSeq(s, (IF j = 1 THEN 0 ELSE c[j - 1]) + 1,
                  IF j = k THEN Len(s) ELSE c[j])]

Cuts(len, k) ==
    { c \in [1..(k - 1) -> 0..len] : \A j \in 1..(k - 2) : c[j] <= c[j + 1] }

CombineInit ==
    /\ mpc = "call"
    /\ \E s \in SeqsUpTo(CombineRows, MaxObs), k \in 0..MaxFrames :
          IF k = 0 THEN s = <<>> /\ delays_list = <<>>
          ELSE \E c \in Cuts(Len(s), k) : delays_list = Frames(s, k, c)
    /\ combined = <<>>

CombineCall ==
    /\ mpc = "call"
    /\ combined' = CombineDelays(delays_list)
    /\ mpc' = "done"
    /\ UNCHANGED delays_list
    /\ UNCHANGED <<collectVars, extractVars, buildVars, delayColVars, interpVars>>

CombineNext == CombineCall

InitCombine ==
    /\ CombineInit /\ CollectOff /\ ExtractOff /\ BuildOff /\ DelayColOff /\ InterpOff

SpecCombine == InitCombine /\ [][CombineNext]_vars

Returned == mpc = "done" /\ ~combined.err

\* C3: the output of combine_delays never has two records with the same
\* (route_id, trip_id, stop_sequence) key, and never a record with both
\* arrival_delay and departure_delay absent.
C3_UniqueKeysNoEmptyRecord ==
    Returned =>
        /\ \A j, k \in 1..Len(combined.rows) :
              KeyOf(combined.rows[j]) = KeyOf(combined.rows[k]) => j = k
        /\ \A k \in 1..Len(combined.rows) :
              NotNull(combined.rows[k].arrival_delay)
                  \/ NotNull(combined.rows[k].departure_delay)

\* The input has two distinct records with one key that survive the
\* preprocessing, and a record with both delays absent, and the output has
\* a record.
C3_Witness ==
    /\ Returned
    /\ combined.rows # <<>>
    /\ LET s == Concat(delays_list)
       IN  /\ \E j, k \in 1..Len(s) :
                 /\ j # k /\ s[j] # s[k] /\ KeyOf(s[j]) = KeyOf(s[k])
                 /\ ~AllNullDropped(s[j]) /\ ~AllNullDropped(s[k])
           /\ \E j \in 1..Len(s) : AllNullDropped(s[j])

\* The records of the input in sorted merge order: the concatenation, stably
\* sorted by key
MergeOrder == SortRows(Concat(delays_list))

\* The value of a delay field in the first record of s, among those of key
\* key, that has the field present; absent when there is none.
FirstPresent(s, key, arrival) ==
    LET val(r) == IF arrival THEN r.arrival_delay ELSE r.departure_delay
        has == { k \in 1..Len(s) : KeyOf(s[k]) = key /\ NotNull(val(s[k])) }
    IN  IF has = {} THEN Null
        ELSE val(s[CHOOSE k \in has : \A j \in has : k <= j])

\* C4: combine_delays is a first-wins backfill: for every key and each of the
\* two delay fields the merged record has the value of the first record in
\* sorted merge order, among those of the key, that has the field present,
\* and the field is absent only when no record of the key has it.
C4_FirstWinsBackfill ==
    Returned =>
        \A k \in 1..Len(combined.rows) :
            LET r == combined.rows[k]
            IN  /\ r.arrival_delay = FirstPresent(MergeOrder, KeyOf(r), TRUE)
                /\ r.departure_delay = FirstPresent(MergeOrder, KeyOf(r), FALSE)

\* A key whose first record lacks the departure delay, which a later record
\* has, and whose arrival delay a later record gives another value: the
\* merged record keeps the first arrival delay and gets the departure delay.
C4_Witness ==
    /\ Returned
    /\ \E k \in 1..Len(combined.rows) :
          LET r == combined.rows[k]
              same == SelectSeq(MergeOrder, LAMBDA x : KeyOf(x) = KeyOf(r))
          IN  /\ Len(same) >= 2
              /\ NotNull(same[1].arrival_delay)
              /\ IsNull(same[1].departure_delay)
              /\ \E j \in 2..Len(same) :
                    /\ NotNull(same[j].arrival_delay)
                    /\ same[j].arrival_delay # same[1].arrival_delay
              /\ \E j \in 2..Len(same) : NotNull(same[j].departure_delay)
              /\ r.arrival_delay = same[1].arrival_delay
              /\ NotNull(r.departure_delay)

-----------------------------------------------------------------------------
(* build_augmented_stop_times                                              *)

MaxFiles == 2
MaxFileEntities == 1

\* The service dates tried: a mid-month day, a month end, a year end, and
\* the 28th and 29th of a leap February
BuildDates == {20160519, 20160531, 20161231, 20160228, 20160229}

\* Scheduled departure times 'HH:MM:SS' as <<hours, minutes, seconds>>
DepartureTimes == {<<8, 0, 0>>, <<23, 39, 59>>, <<23, 40, 0>>, <<25, 10, 0>>}

\* A row of gt.get_stop_times(gtfs_feed, date)
StopTime(tid, sid, seq, dep) ==
    [trip_id |-> tid, stop_id |-> sid, stop_sequence |-> seq, departure_time |-> dep]

\* The schedules tried: trip 1 with one or two stops
Schedules ==
    { <<StopTime(1, 1, 1, d)>> : d \in DepartureTimes } \cup
    { <<StopTime(1, 1, 1, d), StopTime(1, 2, 2, e)>> : d \in DepartureTimes, e \in DepartureTimes }

BuildEntities == WellFormedEntities({1, 2}, {1}, {1}, {Null, Some(5)}, {Null})

IsLeap(y) == (y % 4 = 0 /\ y % 100 # 0) \/ y % 400 = 0

DaysInMonth(y, m) ==
    IF m = 2 THEN (IF IsLeap(y) THEN 29 ELSE 28)
    ELSE IF m \in {4, 6, 9, 11} THEN 30 ELSE 31

\* The calendar date following the date d = YYYYMMDD
NextCalendarDate(d) ==
    LET y == d \div 10000
        m == (d \div 100) % 100
        dd == d % 100
    IN  IF dd < DaysInMonth(y, m) THEN d + 1
        ELSE IF m < 12 THEN y * 10000 + (m + 1) * 100 + 1
        ELSE (y + 1) * 10000 + 101

\* gt.timestr_to_seconds('HH:MM:SS')
TimestrToSeconds(t) == t[1] * 3600 + t[2] * 60 + t[3]

\* gt.timestr_to_seconds(seconds, inverse=True): divmod by 3600, then by 60
SecondsToTimestr(s) == <<s \div 3600, (s % 3600) \div 60, (s % 3600) % 60>>

\* gt.timestr_mod24: the hours modulo 24
TimestrMod24(t) == <<t[1] % 24, t[2], t[3]>>

\* Comparison of 'HH:MM:SS' strings and of YYYYMMDDHHMMSS strings, which are
\* zero-padded and of fixed width
TimeLeq(a, b) ==
    \/ a[1] < b[1]
    \/ a[1] = b[1] /\ a[2] < b[2]
    \/ a[1] = b[1] /\ a[2] = b[2] /\ a[3] <= b[3]

DatetimeLeq(a, b) == a[1] < b[1] \/ (a[1] = b[1] /\ TimeLeq(a[2], b[2]))

\* st['departure_time'].max()
MaxDeparture(sched) ==
    LET ts == { sched[k].departure_time : k \in 1..Len(sched) }
    IN  CHOOSE t \in ts : \A u \in ts : TimeLeq(u, t)

FuzzSeconds == 1200
DaySeconds == 86400

\* end_time = gt.timestr_to_seconds(st['departure_time'].max()) + 20*60
PaddedEnd(sched) == TimestrToSeconds(MaxDeparture(sched)) + FuzzSeconds

\* end_date = str(int(date) + 1) when end_time >= 24*3600, else date
EndDate(d, sched) == IF PaddedEnd(sched) >= DaySeconds THEN d + 1 ELSE d

EndDatetime(d, sched) ==
    <<EndDate(d, sched), TimestrMod24(SecondsToTimestr(PaddedEnd(sched)))>>

StartDatetime(d) == <<d, <<0, 0, 0>>>>

\* if start_datetime <= datetime <= end_datetime
Admitted(f, d, sched) ==
    DatetimeLeq(StartDatetime(d), f.datetime) /\ DatetimeLeq(f.datetime, EndDatetime(d, sched))

\* delays_frames: the frames extracted from the admitted files, in the order
\* of gtfsr_path.iterdir()
RECURSIVE DelaysFrames(_, _, _)
DelaysFrames(fs, d, sched) ==
    IF fs = <<>> THEN <<>>
    ELSE IF Admitted(fs[1], d, sched)
      THEN <<ExtractDelays(fs[1].entities)>> \o DelaysFrames(Tail(fs), d, sched)
      ELSE DelaysFrames(Tail(fs), d, sched)

AugmentedRow(s, arr, dep) ==
    [trip_id |-> s.trip_id, stop_id |-> s.stop_id, stop_sequence |-> s.stop_sequence,
     departure_time |-> s.departure_time, arrival_delay |-> arr, departure_delay |-> dep]

\* The rows that st.merge(delays, how='left', on=['trip_id', 'stop_id',
\* 'stop_sequence']) makes of the row s of st: one for each row of delays
\* with its key, and one without delays when there is none
MergeRow(s, delays) ==
    LET hits == SelectSeq(delays, LAMBDA r :
                    /\ r.trip_id = s.trip_id
                    /\ r.stop_id = s.stop_id
                    /\ r.stop_sequence = s.stop_sequence)
    IN  IF hits = <<>> THEN <<AugmentedRow(s, Null, Null)>>
        ELSE [k \in 1..Len(hits) |->
                 AugmentedRow(s, hits[k].arrival_delay, hits[k].departure_delay)]

RECURSIVE LeftMerge(_, _)
LeftMerge(sched, delays) ==
    IF sched = <<>> THEN <<>>
    ELSE MergeRow(sched[1], delays) \o LeftMerge(Tail(sched), delays)

\* ast.sort_values(['trip_id', 'stop_sequence'])
RECURSIVE SortStops(_)
SortStops(s) ==
    IF s = <<>> THEN <<>>
    ELSE LET rest == SortStops(SubSeq(s, 1, Len(s) - 1))
             r == s[Len(s)]
             before == SelectSeq(rest, LAMBDA x :
                          \/ x.trip_id < r.trip_id
                          \/ x.trip_id = r.trip_id /\ x.stop_sequence <= r.stop_sequence)
             after == SelectSeq(rest, LAMBDA x :
                          \/ x.trip_id > r.trip_id
                          \/ x.trip_id = r.trip_id /\ x.stop_sequence > r.stop_sequence)
         IN  before \o <<r>> \o after

\* The delays extracted, combined and merged with the stop times.  The call
\* raises when combine_delays raises (no file admitted), and when the
\* combined frame has no row: it is then pd.DataFrame([]), without columns,
\* and del delays['route_id'] raises KeyError.
BuildAugmentedStopTimes(d, sched, fs) ==
    LET delays == CombineDelays(DelaysFrames(fs, d, sched))
    IN  IF delays.err \/ delays.rows = <<>> THEN [err |-> TRUE, rows |-> <<>>]
        ELSE [err |-> FALSE, rows |-> SortStops(LeftMerge(sched, delays.rows))]

\* The snapshot files: each has the datetime of its name and the entities
\* of its feed.  One is in the window of every date, the other is five
\* minutes past the midnight that ends the service date.
BuildFiles(d) ==
    { [datetime |-> dt, entities |-> es] :
        dt \in {<<d, <<12, 0, 0>>>>, <<NextCalendarDate(d), <<0, 5, 0>>>>},
        es \in SeqsUpTo(BuildEntities, MaxFileEntities) }

BuildInit ==
    /\ bpc = "call"
    /\ date \in BuildDates
    /\ st \in Schedules
    /\ files \in SeqsUpTo(BuildFiles(date), MaxFiles)
    /\ end_datetime = <<>>
    /\ ast = <<>>

BuildCall ==
    /\ bpc = "call"
    /\ end_datetime' = EndDatetime(date, st)
    /\ ast' = BuildAugmentedStopTimes(date, st, files)
    /\ bpc' = "done"
    /\ UNCHANGED <<date, st, files>>
    /\ UNCHANGED <<collectVars, extractVars, combineVars, delayColVars, interpVars>>

BuildNext == BuildCall

InitBuild ==
    /\ BuildInit /\ CollectOff /\ ExtractOff /\ CombineOff /\ DelayColOff /\ InterpOff

SpecBuild == InitBuild /\ [][BuildNext]_vars

\* C2: for every service date, schedule and set of admitted snapshots (any
\* number of observations, none included, and any route_id values) the call
\* returns a table with as many rows as the scheduled stop times of the date.
\* Stated for the calls that return a table (the call raises when no
\* admitted snapshot has an observation with a delay).
C2_RowCountIsScheduleRowCount ==
    (bpc = "done" /\ ~ast.err) => Len(ast.rows) = Len(st)

\* C6: the admission window ends at the maximum scheduled departure time plus
\* 20 minutes; when that reaches 24:00:00 the end date is the calendar date
\* following the service date and the time of day is taken modulo 24h,
\* otherwise the end date is the service date.
C6_WindowEnd ==
    bpc = "done" =>
        LET padded == TimestrToSeconds(MaxDeparture(st)) + 20 * 60
        IN  end_datetime =
              <<IF padded >= 24 * 3600 THEN NextCalendarDate(date) ELSE date,
                SecondsToTimestr(padded % (24 * 3600))>>

-----------------------------------------------------------------------------
(* append_delay_col                                                        *)

MaxRows == 3

DefaultDelayCutoff == 3600

DelayCutoffs == {DefaultDelayCutoff, 600}

ArrivalDelays == {Some(25), Some(3599), Some(3600)}
DepartureDelays == {Null, Some(10), Some(-3600)}

\* The rows of the argument: stops of the trips 1 and 2
DelayColRows ==
    { [trip_id |-> tid, stop_sequence |-> seq, arrival_delay |-> arr, departure_delay |-> dep] :
        tid \in {1, 2}, seq \in {1, 2}, arr \in ArrivalDelays, dep \in DepartureDelays }

\* Tables of at most k rows, in any order, with one row for a stop of a trip
RECURSIVE TablesUpTo(_)
TablesUpTo(k) ==
    IF k = 0 THEN {<<>>}
    ELSE LET shorter == TablesUpTo(k - 1)
         IN  shorter \cup
             { Append(t, r) : <<t, r>> \in
                 { p \in shorter \X DelayColRows :
                     \A j \in 1..Len(p[1]) :
                         <<p[1][j].trip_id, p[1][j].stop_sequence>>
                             # <<p[2].trip_id, p[2].stop_sequence>> } }

Abs(x) == IF x < 0 THEN -x ELSE x

\* group.iat[-1]: the row k is the last row of its trip_id group, the rows of
\* a group being in the order of the frame
LastOfGroup(f, k) == \A j \in (k + 1)..Len(f) : f[j].trip_id # f[k].trip_id

\* cond = abs(f['delay']) >= delay_cutoff; f.loc[cond, 'delay'] = np.nan
Nullify(d, cutoff) == IF NotNull(d) /\ Abs(Val(d)) >= cutoff THEN Null ELSE d

\* append_delay_col: delay is the departure delay, the last row of every
\* trip group gets the arrival delay, and fishy delays are nullified
AppendDelayCol(f, cutoff) ==
    [k \in 1..Len(f) |->
        [trip_id |-> f[k].trip_id, stop_sequence |-> f[k].stop_sequence,
         arrival_delay |-> f[k].arrival_delay,
         departure_delay |-> f[k].departure_delay,
         delay |-> Nullify(IF LastOfGroup(f, k) THEN f[k].arrival_delay
                           ELSE f[k].departure_delay, cutoff)]]

DelayColInit ==
    /\ dpc = "call"
    /\ dtable \in TablesUpTo(MaxRows)
    /\ delay_cutoff \in DelayCutoffs
    /\ dout = <<>>

DelayColCall ==
    /\ dpc = "call"
    /\ dout' = AppendDelayCol(dtable, delay_cutoff)
    /\ dpc' = "done"
    /\ UNCHANGED <<dtable, delay_cutoff>>
    /\ UNCHANGED <<collectVars, extractVars, combineVars, buildVars, interpVars>>

DelayColNext == DelayColCall

InitDelayCol ==
    /\ DelayColInit /\ CollectOff /\ ExtractOff /\ CombineOff /\ BuildOff /\ InterpOff

SpecDelayCol == InitDelayCol /\ [][DelayColNext]_vars

\* C7: for every input table, rows in any order, a stop's delay is its
\* departure_delay, except the stop with the maximum stop_sequence of its
\* trip, whose delay is its arrival_delay; then every delay of absolute value
\* at least delay_cutoff is null and every other delay is kept.
C7_TerminalStopUsesArrival ==
    dpc = "done" =>
        /\ Len(dout) = Len(dtable)
        /\ \A k \in 1..Len(dout) :
              LET r == dout[k]
                  terminal == \A j \in 1..Len(dout) :
                                 dout[j].trip_id = r.trip_id
                                     => dout[j].stop_sequence <= r.stop_sequence
                  assigned == IF terminal THEN r.arrival_delay ELSE r.departure_delay
              IN  r.delay = IF NotNull(assigned) /\ Abs(Val(assigned)) >= delay_cutoff
                              THEN Null ELSE assigned

-----------------------------------------------------------------------------
(* interpolate_delays                                                      *)

MaxStops == 4

DistThresholds == {0, 1}

Dists == {Null, Some(0), Some(1), Some(3)}
Delays == {Null, Some(5), Some(8)}

\* A row of augmented_stop_times: the rows are in the order of the frame,
\* sorted by trip_id and stop_sequence
Stop(tid, dist, delay) == [trip_id |-> tid, shape_dist_traveled |-> dist, delay |-> delay]

MinOf(S) == CHOOSE x \in S : \A y \in S : x <= y
MaxOf(S) == CHOOSE x \in S : \A y \in S : x >= y

\* The rows of the group of trip tid, as positions of the frame
TripRows(f, tid) == { k \in 1..Len(f) : f[k].trip_id = tid }

\* group[delay_col].dropna().index
KnownRows(f, tid) == { k \in TripRows(f, tid) : NotNull(f[k].delay) }

\* Tables of at most k rows: the trips follow one another and the distances
\* present in a trip do not decrease
RECURSIVE InterpTablesUpTo(_)
InterpTablesUpTo(k) ==
    IF k = 0 THEN {<<>>}
    ELSE LET shorter == InterpTablesUpTo(k - 1)
             rowset == { Stop(tid, dist, delay) :
                           tid \in {1, 2}, dist \in Dists, delay \in Delays }
         IN  shorter \cup
             { Append(p[1], p[2]) : p \in
                 { q \in shorter \X rowset :
                     \A j \in 1..Len(q[1]) :
                         /\ q[1][j].trip_id <= q[2].trip_id
                         /\ ( /\ q[1][j].trip_id = q[2].trip_id
                              /\ NotNull(q[1][j].shape_dist_traveled)
                              /\ NotNull(q[2].shape_dist_traveled) )
                            => Val(q[1][j].shape_dist_traveled)
                                   <= Val(q[2].shape_dist_traveled) } }

\* The distances np.interp is given in this model: a trip has no distance at
\* all, or lacks it only at stops between its first and its last stop that
\* have no delay.  (A NaN among the xp of np.interp gives results that depend
\* on the search inside np.interp; such tables are left out.)
DistsModelled(f) ==
    \A k \in 1..Len(f) :
        IsNull(f[k].shape_dist_traveled) =>
            \/ \A j \in TripRows(f, f[k].trip_id) : IsNull(f[j].shape_dist_traveled)
            \/ /\ IsNull(f[k].delay)
               /\ k # MinOf(TripRows(f, f[k].trip_id))
               /\ k # MaxOf(TripRows(f, f[k].trip_id))

ExceedsThreshold(diff, thr) == diff > thr
ReachesThreshold(diff, thr) == diff >= thr

\* if dist_diff > dist_threshold
DistDiffExceeds(diff, thr) == ExceedsThreshold(diff, thr)

\* dist_diff = abs(a - b) and the test dist_diff > dist_threshold, which is
\* False when a distance is NaN
FarApart(a, b, thr) ==
    /\ NotNull(a) /\ NotNull(b)
    /\ DistDiffExceeds(Abs(Val(a) - Val(b)), thr)

\* One round of the loop `for i in [0, -1]`: the row at of the group (its
\* first or its last) gets 0 or the delay of the row j (the first or the
\* last row of the group with a delay)
SetDelay(f, at, j, thr) ==
    [f EXCEPT ![at].delay =
        IF FarApart(f[at].shape_dist_traveled, f[j].shape_dist_traveled, thr)
          THEN Some(0) ELSE f[j].delay]

\* The frame after the first and last delays of the group of trip tid are set
PinTrip(f, tid, thr) ==
    IF KnownRows(f, tid) = {} THEN f
    ELSE LET g == SetDelay(f, MinOf(TripRows(f, tid)), MinOf(KnownRows(f, tid)), thr)
         IN  SetDelay(g, MaxOf(TripRows(g, tid)), MaxOf(KnownRows(g, tid)), thr)

Pinned(f, thr) == [k \in 1..Len(f) |-> PinTrip(f, f[k].trip_id, thr)[k]]

\* A delay as a fraction <<numerator, denominator>>
Frac(d) == IF IsNull(d) THEN Null ELSE Some(<<Val(d), 1>>)

\* np.interp(x, xp, fp) at the row k of a pinned group, xp and fp being the
\* distances and delays of the rows of the group that have a delay.  With
\* one anchor np.interp compares x with xp[0] and gives fp[0] when x is
\* neither smaller nor greater, so also when x is NaN.  With more anchors
\* it gives NaN when x is NaN; else with j the last anchor whose distance is
\* not greater than x, fp[j] when j is the last anchor or xp[j] = x, and
\* otherwise fp[j] + (fp[j+1] - fp[j]) / (xp[j+1] - xp[j]) * (x - xp[j]).
InterpAt(g, k) ==
    LET anchors == KnownRows(g, g[k].trip_id)
        x == g[k].shape_dist_traveled
        xp(j) == Val(g[j].shape_dist_traveled)
        fp(j) == Val(g[j].delay)
        below == { j \in anchors : xp(j) <= Val(x) }
    IN  IF Cardinality(anchors) = 1 THEN Some(<<fp(MinOf(anchors)), 1>>)
        ELSE IF IsNull(x) THEN Null
        ELSE IF below = {} THEN Some(<<fp(MinOf(anchors)), 1>>)
        ELSE LET j == MaxOf(below)
                 above == { m \in anchors : m > j }
             IN  IF above = {} \/ xp(j) = Val(x) THEN Some(<<fp(j), 1>>)
                 ELSE LET m == MinOf(above)
                      IN  Some(<<fp(j) * (xp(m) - xp(j)) + (fp(m) - fp(j)) * (Val(x) - xp(j)),
                                 xp(m) - xp(j)>>)

\* fill: a trip without any delay is left as it is; g is the frame f with
\* the first and last delays of its groups set
Filled(f, g) ==
    [k \in 1..Len(f) |->
        [g[k] EXCEPT !.delay =
            IF KnownRows(f, f[k].trip_id) = {} THEN Null ELSE InterpAt(g, k)]]

\* round(0) of the fraction q: to the nearest integer, a half to the even one
RoundHalfEven(q) ==
    LET fl == q[1] \div q[2]
        r == q[1] - fl * q[2]
    IN  IF 2 * r < q[2] THEN fl
        ELSE IF 2 * r > q[2] THEN fl + 1
        ELSE IF fl % 2 = 0 THEN fl ELSE fl + 1

Rounded(f) ==
    [k \in 1..Len(f) |->
        [f[k] EXCEPT !.delay = IF IsNull(@) THEN Null ELSE Some(RoundHalfEven(Val(@)))]]

\* if f[delay_col].count() == f[delay_col].shape[0]: return f
NothingToDo(f) == \A k \in 1..Len(f) : NotNull(f[k].delay)

InterpInit ==
    /\ ipc = "call"
    /\ itable \in { t \in InterpTablesUpTo(MaxStops) : DistsModelled(t) }
    /\ dist_threshold \in DistThresholds
    /\ pinned = <<>> /\ interpolated = <<>> /\ iout = <<>>

InterpCall ==
    /\ ipc = "call"
    /\ IF NothingToDo(itable)
         THEN /\ pinned' = itable
              /\ interpolated' = [k \in 1..Len(itable) |->
                                     [itable[k] EXCEPT !.delay = Frac(@)]]
              /\ iout' = itable
         ELSE /\ pinned' = Pinned(itable, dist_threshold)
              /\ interpolated' = Filled(itable, pinned')
              /\ iout' = Rounded(interpolated')
    /\ ipc' = "done"
    /\ UNCHANGED <<itable, dist_threshold>>
    /\ UNCHANGED <<collectVars, extractVars, combineVars, buildVars, delayColVars>>

InterpNext == InterpCall

InitInterp ==
    /\ InterpInit /\ CollectOff /\ ExtractOff /\ CombineOff /\ BuildOff /\ DelayColOff

SpecInterp == InitInterp /\ [][InterpNext]_vars

\* The table has a shape_dist_traveled value (the precondition under which
\* clean_augmented_stop_times calls interpolate_delays)
SomeDistance == \E k \in 1..Len(itable) : NotNull(itable[k].shape_dist_traveled)

TripIds == { itable[k].trip_id : k \in 1..Len(itable) }

\* C8: on a table with at least one non-null shape_dist_traveled, every
\* trip's delays are afterwards all null, exactly when the trip had no
\* non-null delay on input (the trip is then unchanged), or non-null at every
\* stop of the trip.
C8_AllNullOrFilled ==
    (ipc = "done" /\ SomeDistance) =>
        \A tid \in TripIds :
            IF \A k \in TripRows(itable, tid) : IsNull(itable[k].delay)
              THEN \A k \in TripRows(itable, tid) : iout[k] = itable[k]
              ELSE \A k \in TripRows(itable, tid) : NotNull(iout[k].delay)

FracEq(a, b) == a[1] * b[2] = b[1] * a[2]

\* C10: once the first and last stops of a trip are pinned, every interior
\* stop that had a non-null delay on input keeps it, and every interior stop
\* with a null delay gets the value linearly interpolated by
\* shape_dist_traveled between its nearest non-null neighbours in distance
\* order, shape_dist_traveled being non-decreasing within the trip.
C10_InteriorKeptOrInterpolated ==
    (ipc = "done" /\ ~NothingToDo(itable)) =>
        \A tid \in TripIds :
            LET stops == TripRows(itable, tid)
                known == KnownRows(itable, tid)
                anchors == KnownRows(pinned, tid)
            IN  (known # {} /\ \A k \in stops : NotNull(itable[k].shape_dist_traveled)) =>
                  \A k \in stops \ {MinOf(stops), MaxOf(stops)} :
                      IF k \in known
                        THEN /\ NotNull(interpolated[k].delay)
                             /\ FracEq(Val(interpolated[k].delay), <<Val(itable[k].delay), 1>>)
                        ELSE LET l == MaxOf({ j \in anchors : j < k })
                                 r == MinOf({ j \in anchors : j > k })
                                 xl == Val(pinned[l].shape_dist_traveled)
                                 xr == Val(pinned[r].shape_dist_traveled)
                                 x == Val(pinned[k].shape_dist_traveled)
                                 yl == Val(pinned[l].delay)
                                 yr == Val(pinned[r].delay)
                             IN  /\ NotNull(interpolated[k].delay)
                                 /\ xl < xr =>
                                      FracEq(Val(interpolated[k].delay),
                                             <<yl * (xr - xl) + (yr - yl) * (x - xl), xr - xl>>)

====
